---- MODULE Spec2Model ----
(***************************************************************************)
(* EngageIQ orchestration core: the plan registry (CampaignPlanner), the   *)
(* step executor (OrchestratorAgent._execute_existing_plan) and the        *)
(* asynchronous front door (CampaignService.create_campaign and its        *)
(* background run _execute_campaign_async).                                *)
(*                                                                         *)
(* Python objects are modelled as a heap: `heap` is the sequence of every  *)
(* CampaignPlan object ever constructed, `campaign_plans` is the registry  *)
(* dict mapping an identifier to the object it currently refers to.        *)
(* Optional values are sequences: None is <<>>, a value v is <<v>>.        *)
(***************************************************************************)
EXTENDS Integers, Sequences, FiniteSets, TLC

VARIABLES
    campaign_plans,   \* CampaignPlanner.campaign_plans: identifier -> heap reference (0: no key)
    heap,             \* every CampaignPlan object constructed so far
    runs,             \* one record per task submitted to the ThreadPoolExecutor
    now,              \* the wall clock read by datetime.now()
    ops,              \* number of direct registry update calls made so far (RegistrySpec)
    call,             \* the latest direct registry call and what it returned (RegistrySpec)
    held,             \* a value a client got from get_plan / get_plan_status and kept (SnapshotSpec)
    _instance,        \* CampaignPlanner._instance: "None", "bare" (no _initialized yet) or "ready"
    _initialized,     \* CampaignPlanner._instance._initialized
    ctor,             \* position of each thread's CampaignPlanner() call (SingletonSpec)
    access_lock,      \* CampaignPlanner.access_lock: the thread holding it (0: free) (ThreadSpec)
    thread,           \* the registry call each thread is making and its position in it (ThreadSpec)
    creating          \* the create_campaign call that has submitted its run and not yet
                      \* built its response, with the plan it holds (ResponseSpec)

vars == <<campaign_plans, heap, runs, now, ops, call, held, _instance, _initialized, ctor,
          access_lock, thread, creating>>

\* what the runs and the registry methods leave alone
elsewhere == <<held, _instance, _initialized, ctor, access_lock, thread, creating>>

----------------------------------------------------------------------------
(* Bounds of the model *)

MaxPlans == 2        \* create calls explored
MaxId == 2           \* size of the identifier space explored
MaxClock == 1        \* clock values explored
MaxOps == 2          \* direct registry update calls explored in RegistrySpec
MaxSignals == 1      \* collaborator returns carrying success = False explored
PoolPlans == 6       \* create_campaign calls explored in PoolSpec
MaxCallers == 2      \* threads calling CampaignPlanner() explored in SingletonSpec
MaxThreads == 3      \* threads calling registry methods concurrently explored in ThreadSpec

(* Program constants *)

max_workers == 5     \* ThreadPoolExecutor(max_workers=5)
NumSteps == 5        \* the five PlanStep records built by create_plan

IdSpace == 1..MaxId
Callers == 1..MaxCallers
Threads == 1..MaxThreads
Goals == {"Find high-value agents"}

None == <<>>
Some(v) == <<v>>

\* Python truthiness of an Optional[str]: None and "" are both falsy.
Truthy(e) == e # None /\ e[1] # ""

----------------------------------------------------------------------------
(* models.py *)

PENDING == "pending"
IN_PROGRESS == "in_progress"
COMPLETED == "completed"
FAILED == "failed"
EXECUTING == "executing"

StepStatus == {PENDING, IN_PROGRESS, COMPLETED, FAILED}
PlanStatus == {PENDING, EXECUTING, COMPLETED, FAILED}

\* a PlanStep whose started_at defaults to the construction time
PlanStep_StampedAtBirth(n, agent) ==
    [step |-> n, agent_name |-> agent, status |-> PENDING,
     started_at |-> Some(now), completed_at |-> None, result |-> None, error |-> None]

PlanStep(n, agent) ==
    [step |-> n, agent_name |-> agent, status |-> PENDING,
     started_at |-> None, completed_at |-> None, result |-> None, error |-> None]

\* a lookup that falls back to the last step when no step has the number
get_step_clamped(plan, step_num) ==
    LET hits == {i \in 1..Len(plan.steps) : plan.steps[i].step = step_num}
    IN IF hits = {} THEN Len(plan.steps) ELSE CHOOSE i \in hits : \A j \in hits : i <= j

\* CampaignPlan.get_step: the first step whose number is step_num (0: None)
get_step(plan, step_num) ==
    LET hits == {i \in 1..Len(plan.steps) : plan.steps[i].step = step_num}
    IN IF hits = {} THEN 0 ELSE CHOOSE i \in hits : \A j \in hits : i <= j

\* a Python dict as a function; d[k] = v
DictSet(d, k, v) == [x \in DOMAIN d \cup {k} |-> IF x = k THEN v ELSE d[x]]
EmptyDict == [x \in {} |-> None]

----------------------------------------------------------------------------
(* planner_service.py *)

AgentNames == <<"GoalParser", "DataLoader", "SegmentationAgent",
                "ProfileGeneratorAgent", "CampaignStrategistAgent">>

\* _generate_campaign_id: "CAM" + the first 8 hex digits of a random uuid4.
\* Any value of the identifier space may come out, whatever the registry holds.
_generate_campaign_id == IdSpace

\* a plan whose steps are numbered from 0
NewPlan_ZeroBased(campaign_id, goal) ==
    [campaign_id |-> campaign_id,
     goal |-> goal,
     created_at |-> now,
     status |-> PENDING,
     steps |-> [n \in 1..NumSteps |-> PlanStep(n - 1, AgentNames[n])],
     results |-> EmptyDict,
     error |-> None]

\* the CampaignPlan object create_plan constructs
NewPlan(campaign_id, goal) ==
    [campaign_id |-> campaign_id,
     goal |-> goal,
     created_at |-> now,
     status |-> PENDING,
     steps |-> [n \in 1..NumSteps |-> PlanStep(n, AgentNames[n])],
     results |-> EmptyDict,
     error |-> None]

\* the derivation with any() in place of all() in the completed test
_update_plan_status_any(plan) ==
    LET st == {plan.steps[i].status : i \in 1..Len(plan.steps)}
    IN [plan EXCEPT !.status =
            IF IN_PROGRESS \in st THEN EXECUTING
            ELSE IF FAILED \in st THEN FAILED
            ELSE IF COMPLETED \in st THEN COMPLETED
            ELSE PENDING]

\* a derivation that leaves a completed or failed plan status alone
_update_plan_status_sticky(plan) ==
    LET st == {plan.steps[i].status : i \in 1..Len(plan.steps)}
    IN IF plan.status \in {COMPLETED, FAILED} THEN plan
       ELSE [plan EXCEPT !.status =
                IF IN_PROGRESS \in st THEN EXECUTING
                ELSE IF FAILED \in st THEN FAILED
                ELSE IF st \subseteq {COMPLETED} THEN COMPLETED
                ELSE PENDING]

\* _update_plan_status: the plan status derived from the step statuses
_update_plan_status(plan) ==
    LET st == {plan.steps[i].status : i \in 1..Len(plan.steps)}
    IN [plan EXCEPT !.status =
            IF IN_PROGRESS \in st THEN EXECUTING
            ELSE IF FAILED \in st THEN FAILED
            ELSE IF st \subseteq {COMPLETED} THEN COMPLETED
            ELSE PENDING]

\* the step record after update_step_status's assignments
UpdatedStep(step, status, result, error) ==
    LET s1 == [step EXCEPT !.status = status]
        s2 == IF status = IN_PROGRESS THEN [s1 EXCEPT !.started_at = Some(now)]
              ELSE IF status \in {COMPLETED, FAILED}
                   THEN [s1 EXCEPT !.completed_at = Some(now)]
                   ELSE s1
        s3 == IF result # None THEN [s2 EXCEPT !.result = result] ELSE s2
    IN IF Truthy(error) THEN [s3 EXCEPT !.error = error] ELSE s3

\* the results dict rebuilt from the new result alone
UpdatedResults_Rebuilt(plan, i, result) ==
    IF result # None
    THEN DictSet(EmptyDict, plan.steps[i].agent_name, result[1])
    ELSE plan.results

\* the plan-level results dict after update_step_status
UpdatedResults(plan, i, result) ==
    IF result # None
    THEN DictSet(plan.results, plan.steps[i].agent_name, result[1])
    ELSE plan.results

\* update_step_status: its return value ...
update_step_status_ret(campaign_id, step_num) ==
    /\ campaign_plans[campaign_id] # 0
    /\ get_step(heap[campaign_plans[campaign_id]], step_num) # 0

\* ... and the heap it leaves
update_step_status(campaign_id, step_num, status, result, error) ==
    IF ~update_step_status_ret(campaign_id, step_num) THEN heap
    ELSE LET ref == campaign_plans[campaign_id]
             plan == heap[ref]
             i == get_step(plan, step_num)
             p1 == [plan EXCEPT !.steps[i] = UpdatedStep(plan.steps[i], status, result, error),
                                !.results = UpdatedResults(plan, i, result)]
         IN [heap EXCEPT ![ref] = _update_plan_status(p1)]

\* update_plan_status: its return value and the heap it leaves
update_plan_status_ret(campaign_id) == campaign_plans[campaign_id] # 0

\* update_plan_status that records str(None) when no error is given
update_plan_status_str(campaign_id, status, error) ==
    IF ~update_plan_status_ret(campaign_id) THEN heap
    ELSE LET ref == campaign_plans[campaign_id]
             p1 == [heap[ref] EXCEPT !.status = status]
         IN [heap EXCEPT ![ref] =
                [p1 EXCEPT !.error = IF error = None THEN Some("None") ELSE error]]

\* update_plan_status that writes the status to every plan of the registry
update_plan_status_all(campaign_id, status, error) ==
    IF ~update_plan_status_ret(campaign_id) THEN heap
    ELSE [h \in DOMAIN heap |->
             LET p1 == [heap[h] EXCEPT !.status = status]
             IN IF Truthy(error) /\ h = campaign_plans[campaign_id]
                THEN [p1 EXCEPT !.error = error] ELSE p1]

update_plan_status(campaign_id, status, error) ==
    IF ~update_plan_status_ret(campaign_id) THEN heap
    ELSE LET ref == campaign_plans[campaign_id]
             p1 == [heap[ref] EXCEPT !.status = status]
         IN [heap EXCEPT ![ref] = IF Truthy(error) THEN [p1 EXCEPT !.error = error] ELSE p1]

\* datetime.isoformat: the text rendering of a clock value
isoformat(t) == <<"T", t>>

\* PlanStep.to_dict: the result payload is not part of the view
to_dict(step) ==
    [step |-> step.step, agent |-> step.agent_name, status |-> step.status,
     started_at |-> IF step.started_at # None
                    THEN Some(isoformat(step.started_at[1])) ELSE None,
     completed_at |-> IF step.completed_at # None
                      THEN Some(isoformat(step.completed_at[1])) ELSE None,
     error |-> step.error]

\* a view that also carries the time of the call
get_plan_status_stamped(campaign_id) ==
    IF campaign_plans[campaign_id] = 0
    THEN [success |-> FALSE]
    ELSE LET plan == heap[campaign_plans[campaign_id]]
         IN [success |-> TRUE,
             campaign_id |-> plan.campaign_id,
             goal |-> plan.goal,
             status |-> plan.status,
             created_at |-> isoformat(plan.created_at),
             as_of |-> isoformat(now),
             steps |-> [i \in 1..Len(plan.steps) |-> to_dict(plan.steps[i])],
             results |-> plan.results,
             error |-> plan.error]

\* get_plan_status: the view returned under the access lock
get_plan_status(campaign_id) ==
    IF campaign_plans[campaign_id] = 0
    THEN [success |-> FALSE]
    ELSE LET plan == heap[campaign_plans[campaign_id]]
         IN [success |-> TRUE,
             campaign_id |-> plan.campaign_id,
             goal |-> plan.goal,
             status |-> plan.status,
             created_at |-> isoformat(plan.created_at),
             steps |-> [i \in 1..Len(plan.steps) |-> to_dict(plan.steps[i])],
             results |-> plan.results,
             error |-> plan.error]

----------------------------------------------------------------------------
(* External collaborators: opaque calls that return a payload or raise *)

Messages == {"", "timeout"}      \* str(exception): TimeoutError() has the empty message
Payloads == {"ok", "nok"}        \* payload with success = True / success = False

\* the collaborators whose process() returns {"success": False, ...} on failure
SignalsFailure(agent) ==
    agent \in {"DataLoader", "SegmentationAgent", "ProfileGeneratorAgent",
               "CampaignStrategistAgent"}

ReturnsOf(agent) == IF SignalsFailure(agent) THEN Payloads ELSE {"ok"}

\* GoalParserAgent.process raises ValueError when the goal is empty, before
\* anything else; every other call may return or raise with any message
NoGoal == "No goal provided in message"
Answers(agent, goal) ==
    IF agent = "GoalParser" /\ goal = "" THEN {} ELSE ReturnsOf(agent)
Raises(agent, goal) ==
    IF agent = "GoalParser" /\ goal = "" THEN {NoGoal} ELSE Messages

\* _execute_single_step: the collaborator's payload wrapped under the stage's key
WrapKey(agent) ==
    CASE agent = "GoalParser" -> "criteria"
      [] agent = "DataLoader" -> "agent_data"
      [] agent = "SegmentationAgent" -> "segmentation"
      [] agent = "ProfileGeneratorAgent" -> "profiles"
      [] OTHER -> "strategy"

_execute_single_step(agent, payload) == [key |-> WrapKey(agent), payload |-> payload]

\* results.get(agent, {}).get(key, {}): the payload stored under the stage's
\* key, or the empty dict
Lookup(results, agent, key) ==
    IF agent \in DOMAIN results /\ results[agent].key = key
    THEN results[agent].payload
    ELSE "{}"

\* a message content that hands every collaborator all the accumulated results
content_everything(agent, plan) ==
    [goal |-> plan.goal,
     criteria |-> Lookup(plan.results, "GoalParser", "criteria"),
     agent_data |-> Lookup(plan.results, "DataLoader", "agent_data"),
     segmentation |-> Lookup(plan.results, "SegmentationAgent", "segmentation"),
     profiles |-> Lookup(plan.results, "ProfileGeneratorAgent", "profiles")]

\* _execute_*_step: the content of the Message passed to the collaborator,
\* built from campaign_plan.goal and campaign_plan.results
content(agent, plan) ==
    CASE agent = "GoalParser" -> [goal |-> plan.goal]
      [] agent = "DataLoader" -> [x \in {} |-> "{}"]
      [] agent = "SegmentationAgent" ->
            [criteria |-> Lookup(plan.results, "GoalParser", "criteria"),
             agent_data |-> Lookup(plan.results, "DataLoader", "agent_data")]
      [] agent = "ProfileGeneratorAgent" ->
            [segmentation |-> Lookup(plan.results, "SegmentationAgent", "segmentation"),
             agent_data |-> Lookup(plan.results, "DataLoader", "agent_data"),
             criteria |-> Lookup(plan.results, "GoalParser", "criteria")]
      [] OTHER ->
            [profiles |-> Lookup(plan.results, "ProfileGeneratorAgent", "profiles"),
             goal |-> plan.goal,
             criteria |-> Lookup(plan.results, "GoalParser", "criteria")]

----------------------------------------------------------------------------
(* campaign_service.py and orchestrator_agent.py: one record per submitted run *)

\* `plan` is the CampaignPlan reference get_plan returned to the run (0: none
\* yet); `unlocked` collects the mutable plan fields the run's thread has read
\* through such a reference in its own code, outside the registry's methods
\* and so without access_lock; `sent` keeps the content of the Message each
\* collaborator was called with
NewRun(campaign_id) ==
    [id |-> campaign_id, pc |-> "queued", plan |-> 0, j |-> 1, err |-> None,
     outcome |-> [n \in 1..NumSteps |-> "not_called"], persisted |-> "no",
     unlocked |-> {}, sent |-> [n \in 1..NumSteps |-> None]]

Running == {r \in DOMAIN runs : runs[r].pc \notin {"queued", "done"}}

\* the failure-signalling returns made so far, over all runs
Signalled == {rn \in (DOMAIN runs) \X (1..NumSteps) : runs[rn[1]].outcome[rn[2]] = "nok"}

Init ==
    /\ campaign_plans = [id \in IdSpace |-> 0]
    /\ heap = <<>>
    /\ runs = <<>>
    /\ now = 0
    /\ ops = 0
    /\ call = [op |-> "none"]
    /\ held = [kind |-> "none"]
    /\ _instance = "ready"
    /\ _initialized = TRUE
    /\ ctor = [t \in Callers |-> "done"]
    /\ access_lock = 0
    /\ thread = [t \in Threads |-> [pc |-> "idle", c |-> [op |-> "none"], ref |-> 0, derived |-> PENDING]]
    /\ creating = [st |-> "none"]

\* create_campaign without the executor.submit call
create_campaign_unsubmitted(goal) ==
    /\ Len(heap) < MaxPlans
    /\ \E campaign_id \in _generate_campaign_id :
        /\ heap' = Append(heap, NewPlan(campaign_id, goal))
        /\ campaign_plans' = [campaign_plans EXCEPT ![campaign_id] = Len(heap) + 1]
    /\ UNCHANGED <<runs, now, ops, call, elsewhere>>

\* create_campaign whose submit waits until a worker of the pool is free
create_campaign_blocking(goal, campaign_id) ==
    /\ Cardinality({r \in DOMAIN runs : runs[r].pc \notin {"queued", "done"}}) < max_workers
    /\ heap' = Append(heap, NewPlan(campaign_id, goal))
    /\ campaign_plans' = [campaign_plans EXCEPT ![campaign_id] = Len(heap) + 1]
    /\ runs' = Append(runs, NewRun(campaign_id))
    /\ UNCHANGED <<now, ops, call, elsewhere>>

\* create_campaign that first marks every plan still executing as timed out
create_campaign_sweeping(goal, campaign_id) ==
    /\ heap' = Append([p \in DOMAIN heap |->
                          IF heap[p].status = EXECUTING
                          THEN [heap[p] EXCEPT !.status = FAILED, !.error = Some("timeout")]
                          ELSE heap[p]],
                      NewPlan(campaign_id, goal))
    /\ campaign_plans' = [campaign_plans EXCEPT ![campaign_id] = Len(heap) + 1]
    /\ runs' = Append(runs, NewRun(campaign_id))
    /\ UNCHANGED <<now, ops, call, elsewhere>>

\* CampaignService.create_campaign once create_plan has drawn campaign_id:
\* the plan is stored, the run is submitted, the response is returned
create_campaign_as(goal, campaign_id) ==
    /\ heap' = Append(heap, NewPlan(campaign_id, goal))
    /\ campaign_plans' = [campaign_plans EXCEPT ![campaign_id] = Len(heap) + 1]
    /\ runs' = Append(runs, NewRun(campaign_id))
    /\ UNCHANGED <<now, ops, call, elsewhere>>

\* CampaignService.create_campaign: create_plan, then submit the run
create_campaign(goal) ==
    /\ Len(heap) < MaxPlans
    /\ \E campaign_id \in _generate_campaign_id : create_campaign_as(goal, campaign_id)

\* an executor that starts a thread for every queued task
_execute_campaign_async_unbounded(r) ==
    /\ runs[r].pc = "queued"
    /\ \A q \in DOMAIN runs : runs[q].pc = "queued" => r <= q
    /\ heap' = update_plan_status(runs[r].id, EXECUTING, None)
    /\ runs' = [runs EXCEPT ![r].pc = "get_plan"]
    /\ UNCHANGED <<campaign_plans, now, ops, call, elsewhere>>

\* a pool worker takes the oldest queued task and runs _execute_campaign_async
\* up to its first registry call, update_plan_status(campaign_id, "executing")
_execute_campaign_async(r) ==
    /\ runs[r].pc = "queued"
    /\ \A q \in DOMAIN runs : runs[q].pc = "queued" => r <= q
    /\ Cardinality(Running) < max_workers
    /\ heap' = update_plan_status(runs[r].id, EXECUTING, None)
    /\ runs' = [runs EXCEPT ![r].pc = "get_plan"]
    /\ UNCHANGED <<campaign_plans, now, ops, call, elsewhere>>

\* _execute_existing_plan: campaign_plan = self.planner.get_plan(campaign_id)
get_plan(r) ==
    /\ runs[r].pc = "get_plan"
    /\ runs' = [runs EXCEPT ![r].plan = campaign_plans[runs[r].id],
                            ![r].pc = IF campaign_plans[runs[r].id] = 0 THEN "done" ELSE "loop"]
    /\ UNCHANGED <<campaign_plans, heap, now, ops, call, elsewhere>>

\* a loop that walks campaign_plan.steps from the last step to the first
CurStep_Reversed(r) ==
    heap[runs[r].plan].steps[Len(heap[runs[r].plan].steps) + 1 - runs[r].j]

\* the step the loop of run r is at, read from the plan object the run holds
CurStep(r) == heap[runs[r].plan].steps[runs[r].j]

\* a loop body that dispatches the step without marking it in_progress
step_in_progress_skipped(r) ==
    /\ runs[r].pc = "loop"
    /\ runs' = [runs EXCEPT ![r].pc = "dispatch"]
    /\ UNCHANGED <<campaign_plans, heap, now, ops, call, elsewhere>>

\* loop body, first call: update_step_status(campaign_id, step.step, "in_progress")
step_in_progress(r) ==
    /\ runs[r].pc = "loop"
    /\ heap' = update_step_status(runs[r].id, CurStep(r).step, IN_PROGRESS, None, None)
    /\ runs' = [runs EXCEPT ![r].pc = "dispatch",
                            ![r].unlocked = @ \cup {"steps"}]
    /\ UNCHANGED <<campaign_plans, now, ops, call, elsewhere>>

\* the collaborator returns: update_step_status(..., "completed", result=result)
step_completed(r) ==
    /\ runs[r].pc = "dispatch"
    /\ \E payload \in Answers(CurStep(r).agent_name, heap[runs[r].plan].goal) :
        /\ payload = "nok" => Cardinality(Signalled) < MaxSignals
        /\ heap' = update_step_status(runs[r].id, CurStep(r).step, COMPLETED,
                       Some(_execute_single_step(CurStep(r).agent_name, payload)), None)
        /\ runs' = [runs EXCEPT
                       ![r].outcome[runs[r].j] = payload,
                       ![r].unlocked = @ \cup {"results"},
                       ![r].sent[runs[r].j] =
                           Some(content(CurStep(r).agent_name, heap[runs[r].plan])),
                       ![r].j = IF runs[r].j < Len(heap[runs[r].plan].steps)
                                THEN runs[r].j + 1 ELSE runs[r].j,
                       ![r].pc = IF runs[r].j < Len(heap[runs[r].plan].steps)
                                 THEN "loop" ELSE "mark_completed"]
    /\ UNCHANGED <<campaign_plans, now, ops, call, elsewhere>>

\* a handler that stores mock data for the step and carries on, as the earlier
\* _execute_plan did
step_failed_mock(r) ==
    /\ runs[r].pc = "dispatch"
    /\ heap' = update_step_status(runs[r].id, CurStep(r).step, COMPLETED,
                   Some(_execute_single_step(CurStep(r).agent_name, "mock")), None)
    /\ runs' = [runs EXCEPT
                   ![r].outcome[runs[r].j] = "raised",
                   ![r].j = IF runs[r].j < Len(heap[runs[r].plan].steps)
                            THEN runs[r].j + 1 ELSE runs[r].j,
                   ![r].pc = IF runs[r].j < Len(heap[runs[r].plan].steps)
                             THEN "loop" ELSE "mark_completed"]
    /\ UNCHANGED <<campaign_plans, now, ops, call, elsewhere>>

\* a handler that stores what the collaborator had produced so far with the failure
step_failed_partial(r) ==
    /\ runs[r].pc = "dispatch"
    /\ \E m \in Raises(CurStep(r).agent_name, heap[runs[r].plan].goal) :
        /\ heap' = update_step_status(runs[r].id, CurStep(r).step, FAILED,
                       Some(_execute_single_step(CurStep(r).agent_name, "partial")), Some(m))
        /\ runs' = [runs EXCEPT ![r].outcome[runs[r].j] = "raised",
                                ![r].err = Some(m),
                                ![r].pc = "plan_failed"]
    /\ UNCHANGED <<campaign_plans, now, ops, call, elsewhere>>

\* the collaborator raises: update_step_status(..., "failed", error=str(step_error)); raise
step_failed(r) ==
    /\ runs[r].pc = "dispatch"
    /\ \E m \in Raises(CurStep(r).agent_name, heap[runs[r].plan].goal) :
        /\ heap' = update_step_status(runs[r].id, CurStep(r).step, FAILED, None, Some(m))
        /\ runs' = [runs EXCEPT ![r].outcome[runs[r].j] = "raised",
                                ![r].unlocked = @ \cup {"results"},
                                ![r].sent[runs[r].j] =
                                    Some(content(CurStep(r).agent_name, heap[runs[r].plan])),
                                ![r].err = Some(m),
                                ![r].pc = "plan_failed"]
    /\ UNCHANGED <<campaign_plans, now, ops, call, elsewhere>>

\* outer handler: update_plan_status(campaign_id, "failed", error=str(e)); return
plan_failed(r) ==
    /\ runs[r].pc = "plan_failed"
    /\ heap' = update_plan_status(runs[r].id, FAILED, runs[r].err)
    /\ runs' = [runs EXCEPT ![r].pc = "done"]
    /\ UNCHANGED <<campaign_plans, now, ops, call, elsewhere>>

\* after the loop: update_plan_status(campaign_id, "completed")
plan_completed(r) ==
    /\ runs[r].pc = "mark_completed"
    /\ heap' = update_plan_status(runs[r].id, COMPLETED, None)
    /\ runs' = [runs EXCEPT ![r].pc = "persist"]
    /\ UNCHANGED <<campaign_plans, now, ops, call, elsewhere>>

\* a persistence failure that reaches the outer handler of _execute_campaign_async
persist_unguarded(r) ==
    /\ runs[r].pc = "persist"
    /\ \E outcome \in {"ok", "failed"} :
        /\ runs' = [runs EXCEPT ![r].persisted = outcome, ![r].pc = "done"]
        /\ heap' = IF outcome = "failed"
                   THEN update_plan_status(runs[r].id, FAILED, Some("timeout"))
                   ELSE heap
    /\ UNCHANGED <<campaign_plans, now, ops, call, elsewhere>>

\* back in _execute_campaign_async: plan = get_plan(campaign_id), campaign_data
\* and the persistence calls are fed from plan.results; the calls succeed or
\* raise, and the handler around them only prints a warning
persist(r) ==
    /\ runs[r].pc = "persist"
    /\ \E outcome \in {"ok", "failed"} :
        runs' = [runs EXCEPT ![r].persisted = outcome, ![r].pc = "done",
                            ![r].unlocked = @ \cup {"results"}]
    /\ UNCHANGED <<campaign_plans, heap, now, ops, call, elsewhere>>

Worker(r) ==
    \/ _execute_campaign_async(r)
    \/ get_plan(r)
    \/ step_in_progress(r)
    \/ step_completed(r)
    \/ step_failed(r)
    \/ plan_failed(r)
    \/ plan_completed(r)
    \/ persist(r)

Next ==
    \/ \E goal \in Goals : create_campaign(goal)
    \/ \E r \in DOMAIN runs : Worker(r)

Spec == Init /\ [][Next]_vars

\* CampaignService.get_campaign_status: the registry's view, passed through
get_campaign_status(campaign_id) == get_plan_status(campaign_id)

\* routes/campaigns.py get_campaign_result: a literal response; neither the
\* identifier nor the registry is read
get_campaign_result(campaign_id) ==
    [success |-> TRUE,
     campaign_strategy |-> [objective |-> "retention", primary_channel |-> "email"],
     confidence_score |-> "0.7"]

----------------------------------------------------------------------------
(* The runs under fair scheduling.  Every collaborator call returns or raises  *)
(* and the pool keeps taking queued tasks: whenever some worker can take a     *)
(* step, one eventually does.  The collaborators explored here return a        *)
(* success payload or raise.                                                   *)

Quiet ==
    \A r \in DOMAIN runs :
        \A n \in 1..NumSteps : runs[r].outcome[n] # "nok"

FairCreate == (\E goal \in Goals : create_campaign(goal)) /\ Quiet'
FairWorker == (\E r \in DOMAIN runs : Worker(r)) /\ Quiet'

FairNext ==
    \/ FairCreate
    \/ FairWorker

FairSpec == Init /\ [][FairNext]_vars /\ WF_vars(FairWorker)

----------------------------------------------------------------------------
(* create_campaign in two parts: the plan is stored and the run submitted,    *)
(* then the response is built from the plan object create_plan returned,      *)
(* while the pool is already free to take the run.                            *)

\* create_campaign up to executor.submit
create_campaign_submit(goal) ==
    /\ creating.st = "none"
    /\ Len(heap) < MaxPlans
    /\ \E campaign_id \in _generate_campaign_id :
        /\ heap' = Append(heap, NewPlan(campaign_id, goal))
        /\ campaign_plans' = [campaign_plans EXCEPT ![campaign_id] = Len(heap) + 1]
        /\ runs' = Append(runs, NewRun(campaign_id))
        /\ creating' = [st |-> "submitted", campaign_id |-> campaign_id,
                        goal |-> goal, plan |-> Len(heap) + 1]
    /\ UNCHANGED <<now, ops, call, held, _instance, _initialized, ctor, access_lock, thread>>

\* create_campaign: the returned dict, with "status": "pending" written out and
\* "plan" rendered from plan.steps at this moment
create_campaign_respond ==
    /\ creating.st = "submitted"
    /\ call' = [op |-> "create_campaign",
                ret |-> [success |-> TRUE,
                         campaign_id |-> creating.campaign_id,
                         goal |-> creating.goal,
                         status |-> "pending",
                         created_at |-> isoformat(heap[creating.plan].created_at),
                         plan |-> [i \in 1..Len(heap[creating.plan].steps) |->
                                      to_dict(heap[creating.plan].steps[i])]]]
    /\ creating' = [st |-> "none"]
    /\ UNCHANGED <<campaign_plans, heap, runs, now, ops, held, _instance, _initialized,
                   ctor, access_lock, thread>>

ResponseNext ==
    \/ \E goal \in Goals : create_campaign_submit(goal)
    \/ create_campaign_respond
    \/ FairWorker

ResponseSpec == Init /\ [][ResponseNext]_vars

----------------------------------------------------------------------------
(* The service called with any goal text, the empty one included *)

InputGoals == Goals \cup {""}

InputCreate == \E goal \in InputGoals : create_campaign(goal)

InputNext ==
    \/ InputCreate
    \/ FairWorker

InputSpec == Init /\ [][InputNext]_vars

----------------------------------------------------------------------------
(* The pool under load: more plans than workers.  The identifiers drawn are   *)
(* all different.  The collaborators explored: those of the first run return  *)
(* a success payload or raise, those of the later runs raise at step 1 or     *)
(* have not answered yet.                                                     *)

PoolInit ==
    /\ campaign_plans = [id \in 1..PoolPlans |-> 0]
    /\ heap = <<>>
    /\ runs = <<>>
    /\ now = 0
    /\ ops = 0
    /\ call = [op |-> "none"]
    /\ held = [kind |-> "none"]
    /\ _instance = "ready"
    /\ _initialized = TRUE
    /\ ctor = [t \in Callers |-> "done"]
    /\ access_lock = 0
    /\ thread = [t \in Threads |-> [pc |-> "idle", c |-> [op |-> "none"], ref |-> 0, derived |-> PENDING]]
    /\ creating = [st |-> "none"]

PoolEnv ==
    \A r \in DOMAIN runs :
        /\ runs[r].err # Some("")
        /\ \A n \in 1..NumSteps :
               /\ runs[r].outcome[n] # "nok"
               /\ r > 1 => runs[r].outcome[n] # "ok"

PoolCreate ==
    \E goal \in Goals :
        Len(heap) < PoolPlans /\ create_campaign_as(goal, Len(heap) + 1)

PoolWorker == (\E r \in DOMAIN runs : Worker(r)) /\ PoolEnv'

PoolNext ==
    \/ PoolCreate
    \/ PoolWorker

PoolSpec == PoolInit /\ [][PoolNext]_vars

----------------------------------------------------------------------------
(* The registry driven directly through its public methods, any arguments *)

\* step numbers passed by the client: the first two steps and one that no plan has
ApiSteps == {1, 2, NumSteps + 1}
ApiResults == {None} \cup {Some([key |-> "objective", payload |-> p]) : p \in {"retention", "upsell"}}
ApiErrors == {None} \cup {Some(m) : m \in Messages}
\* the (result, error) keyword arguments explored: at most one of them is given
ApiKwargs == {ra \in ApiResults \X ApiErrors : ra[1] = None \/ ra[2] = None}

\* CampaignPlanner.create_plan
create_plan(goal) ==
    /\ Len(heap) < MaxPlans
    /\ \E campaign_id \in _generate_campaign_id :
        /\ heap' = Append(heap, NewPlan(campaign_id, goal))
        /\ campaign_plans' = [campaign_plans EXCEPT ![campaign_id] = Len(heap) + 1]
        /\ call' = [op |-> "create_plan", ret |-> campaign_id]
    /\ UNCHANGED <<runs, now, ops, elsewhere>>

\* CampaignPlanner.update_step_status called with these arguments
api_update_step_status(campaign_id, step_num, status, result, error) ==
    /\ ops < MaxOps
    /\ heap' = update_step_status(campaign_id, step_num, status, result, error)
    /\ call' = [op |-> "update_step_status", campaign_id |-> campaign_id,
                step_num |-> step_num, status |-> status, result |-> result,
                error |-> error, ret |-> update_step_status_ret(campaign_id, step_num)]
    /\ ops' = ops + 1
    /\ UNCHANGED <<campaign_plans, runs, now, elsewhere>>

\* CampaignPlanner.update_plan_status called with these arguments
api_update_plan_status(campaign_id, status, error) ==
    /\ ops < MaxOps
    /\ heap' = update_plan_status(campaign_id, status, error)
    /\ call' = [op |-> "update_plan_status", campaign_id |-> campaign_id,
                status |-> status, error |-> error,
                ret |-> update_plan_status_ret(campaign_id)]
    /\ ops' = ops + 1
    /\ UNCHANGED <<campaign_plans, runs, now, elsewhere>>

\* CampaignPlanner.get_plan_status called for this identifier
api_get_plan_status(campaign_id) ==
    /\ call' = [op |-> "get_plan_status", campaign_id |-> campaign_id,
                ret |-> get_plan_status(campaign_id)]
    /\ UNCHANGED <<campaign_plans, heap, runs, now, ops, elsewhere>>

\* time passes between calls
tick ==
    /\ now < MaxClock
    /\ now' = now + 1
    /\ UNCHANGED <<campaign_plans, heap, runs, ops, call, elsewhere>>

RegistryNext ==
    \/ \E goal \in Goals : create_plan(goal)
    \/ \E campaign_id \in IdSpace, step_num \in ApiSteps, status \in StepStatus,
          kw \in ApiKwargs :
            api_update_step_status(campaign_id, step_num, status, kw[1], kw[2])
    \/ \E campaign_id \in IdSpace, status \in PlanStatus, error \in ApiErrors :
            api_update_plan_status(campaign_id, status, error)
    \/ \E campaign_id \in IdSpace : api_get_plan_status(campaign_id)
    \/ tick

RegistrySpec == Init /\ [][RegistryNext]_vars

----------------------------------------------------------------------------
(* First construction of the singleton by several threads.  __new__ creates   *)
(* the instance under the class lock; __init__ runs in every caller, outside  *)
(* any lock.                                                                  *)

SingletonInit ==
    /\ campaign_plans = [id \in IdSpace |-> 0]
    /\ heap = <<>>
    /\ runs = <<>>
    /\ now = 0
    /\ ops = 0
    /\ call = [op |-> "none"]
    /\ held = [kind |-> "none"]
    /\ _instance = "None"
    /\ _initialized = FALSE
    /\ ctor = [t \in Callers |-> "idle"]
    /\ access_lock = 0
    /\ thread = [t \in Threads |-> [pc |-> "idle", c |-> [op |-> "none"], ref |-> 0, derived |-> PENDING]]
    /\ creating = [st |-> "none"]

\* __new__: if cls._instance is None (read without the lock)
new_check(t) ==
    /\ ctor[t] = "idle"
    /\ ctor' = [ctor EXCEPT ![t] = IF _instance = "None" THEN "new_lock" ELSE "init"]
    /\ UNCHANGED <<campaign_plans, heap, runs, now, ops, call, held, _instance, _initialized, access_lock, thread, creating>>

\* __new__: with cls._lock: if cls._instance is None: cls._instance = super().__new__(cls)
new_create(t) ==
    /\ ctor[t] = "new_lock"
    /\ \A u \in Callers : ctor[u] # "new_flag"
    /\ IF _instance = "None"
       THEN _instance' = "bare" /\ ctor' = [ctor EXCEPT ![t] = "new_flag"]
       ELSE _instance' = _instance /\ ctor' = [ctor EXCEPT ![t] = "init"]
    /\ UNCHANGED <<campaign_plans, heap, runs, now, ops, call, held, _initialized, access_lock, thread, creating>>

\* __new__: cls._instance._initialized = False; the lock is released
new_flag(t) ==
    /\ ctor[t] = "new_flag"
    /\ _initialized' = FALSE
    /\ _instance' = "ready"
    /\ ctor' = [ctor EXCEPT ![t] = "init"]
    /\ UNCHANGED <<campaign_plans, heap, runs, now, ops, call, held, access_lock, thread, creating>>

\* __init__: if self._initialized: return (AttributeError while the instance
\* has no _initialized yet)
init_check(t) ==
    /\ ctor[t] = "init"
    /\ ctor' = [ctor EXCEPT ![t] = IF _instance = "bare" THEN "raised"
                                   ELSE IF _initialized THEN "done" ELSE "init_plans"]
    /\ UNCHANGED <<campaign_plans, heap, runs, now, ops, call, held, _instance, _initialized, access_lock, thread, creating>>

\* __init__: self.campaign_plans = {}; self.access_lock = threading.Lock()
init_plans(t) ==
    /\ ctor[t] = "init_plans"
    /\ campaign_plans' = [id \in DOMAIN campaign_plans |-> 0]
    /\ ctor' = [ctor EXCEPT ![t] = "init_flag"]
    /\ UNCHANGED <<heap, runs, now, ops, call, held, _instance, _initialized, access_lock, thread, creating>>

\* __init__: self._initialized = True
init_flag(t) ==
    /\ ctor[t] = "init_flag"
    /\ _initialized' = TRUE
    /\ ctor' = [ctor EXCEPT ![t] = "done"]
    /\ UNCHANGED <<campaign_plans, heap, runs, now, ops, call, held, _instance, access_lock, thread, creating>>

\* a thread whose CampaignPlanner() call has returned uses the registry
Constructed == \E t \in Callers : ctor[t] = "done"

SingletonNext ==
    \/ \E t \in Callers : new_check(t)
    \/ \E t \in Callers : new_create(t)
    \/ \E t \in Callers : new_flag(t)
    \/ \E t \in Callers : init_check(t)
    \/ \E t \in Callers : init_plans(t)
    \/ \E t \in Callers : init_flag(t)
    \/ \E goal \in Goals : Constructed /\ create_plan(goal)
    \/ \E campaign_id \in IdSpace : Constructed /\ api_get_plan_status(campaign_id)

SingletonSpec == SingletonInit /\ [][SingletonNext]_vars

----------------------------------------------------------------------------
(* The service at work while another thread is still inside its first         *)
(* CampaignPlanner.get_instance() call: one campaign is created and run.     *)

StartupCreate ==
    \E goal \in Goals, campaign_id \in _generate_campaign_id :
        /\ Constructed
        /\ Len(heap) < 1
        /\ create_campaign_as(goal, campaign_id)

StartupNext ==
    \/ \E t \in Callers : new_check(t)
    \/ \E t \in Callers : new_create(t)
    \/ \E t \in Callers : new_flag(t)
    \/ \E t \in Callers : init_check(t)
    \/ \E t \in Callers : init_plans(t)
    \/ \E t \in Callers : init_flag(t)
    \/ StartupCreate
    \/ FairWorker

StartupSpec == SingletonInit /\ [][StartupNext]_vars

----------------------------------------------------------------------------
(* A client that keeps what one registry read returned while updates go on *)

\* get_plan_status: the client keeps the returned dict.  Its "results" entry is
\* plan.results itself, the dict object the plan holds; every other entry is a
\* value built for this call.
client_get_plan_status(campaign_id) ==
    /\ held.kind = "none"
    /\ campaign_plans[campaign_id] # 0
    /\ held' = [kind |-> "get_plan_status", ref |-> campaign_plans[campaign_id],
                value |-> get_plan_status(campaign_id)]
    /\ UNCHANGED <<campaign_plans, heap, runs, now, ops, call, _instance, _initialized, ctor, access_lock, thread, creating>>

\* get_plan: the client keeps the returned CampaignPlan, the registry's own object
client_get_plan(campaign_id) ==
    /\ held.kind = "none"
    /\ campaign_plans[campaign_id] # 0
    /\ held' = [kind |-> "get_plan", ref |-> campaign_plans[campaign_id],
                value |-> heap[campaign_plans[campaign_id]]]
    /\ UNCHANGED <<campaign_plans, heap, runs, now, ops, call, _instance, _initialized, ctor, access_lock, thread, creating>>

\* what the kept value reads as now
Deref(h) ==
    IF h.kind = "get_plan" THEN heap[h.ref]
    ELSE [h.value EXCEPT !.results = heap[h.ref].results]

SnapshotNext ==
    \/ \E goal \in Goals : create_plan(goal)
    \/ \E campaign_id \in IdSpace, step_num \in ApiSteps, status \in StepStatus,
          kw \in ApiKwargs :
            api_update_step_status(campaign_id, step_num, status, kw[1], kw[2])
    \/ \E campaign_id \in IdSpace, status \in PlanStatus, error \in ApiErrors :
            api_update_plan_status(campaign_id, status, error)
    \/ \E campaign_id \in IdSpace : client_get_plan_status(campaign_id)
    \/ \E campaign_id \in IdSpace : client_get_plan(campaign_id)

SnapshotSpec == Init /\ [][SnapshotNext]_vars

----------------------------------------------------------------------------
(* Several threads calling the registry at once.  Each method is split where  *)
(* the code leaves a partially updated plan behind: update_step_status first  *)
(* assigns the step's fields and then recomputes the plan status, both inside *)
(* `with self.access_lock`; create_plan builds the plan outside the lock and  *)
(* stores it inside.                                                          *)

\* the calls explored: the first two steps, the statuses the executor passes
ThreadSteps == {1, 2}
ThreadCalls ==
    {[op |-> "create_plan", goal |-> g, campaign_id |-> id] :
        g \in Goals, id \in _generate_campaign_id}
    \cup {[op |-> "update_step_status", campaign_id |-> id, step_num |-> n,
           status |-> st, result |-> IF st = COMPLETED
                                     THEN Some([key |-> "objective", payload |-> "retention"])
                                     ELSE None,
           error |-> None] : id \in IdSpace, n \in ThreadSteps, st \in {IN_PROGRESS, COMPLETED}}
    \cup {[op |-> "update_plan_status", campaign_id |-> id, status |-> FAILED,
           error |-> Some("timeout")] : id \in IdSpace}
    \cup {[op |-> "get_plan_status", campaign_id |-> id] : id \in IdSpace}

\* a thread enters a registry method
invoke(t, c) ==
    /\ thread[t].pc = "idle"
    /\ thread' = [thread EXCEPT ![t] =
                    [pc |-> IF c.op = "create_plan" THEN "build" ELSE "lock",
                     c |-> c, ref |-> 0, derived |-> PENDING]]
    /\ UNCHANGED <<campaign_plans, heap, runs, now, ops, call, held, _instance,
                   _initialized, ctor, access_lock, creating>>

\* create_plan: the identifier is drawn and the CampaignPlan is constructed
create_plan_build(t) ==
    /\ thread[t].pc = "build"
    /\ heap' = Append(heap, NewPlan(thread[t].c.campaign_id, thread[t].c.goal))
    /\ thread' = [thread EXCEPT ![t].pc = "store", ![t].ref = Len(heap) + 1]
    /\ UNCHANGED <<campaign_plans, runs, now, ops, call, held, _instance,
                   _initialized, ctor, access_lock, creating>>

\* create_plan: with self.access_lock: self.campaign_plans[campaign_id] = plan
create_plan_store(t) ==
    /\ thread[t].pc = "store"
    /\ access_lock = 0
    /\ campaign_plans' = [campaign_plans EXCEPT ![thread[t].c.campaign_id] = thread[t].ref]
    /\ thread' = [thread EXCEPT ![t].pc = "done"]
    /\ UNCHANGED <<heap, runs, now, ops, call, held, _instance, _initialized, ctor,
                   access_lock, creating>>

\* update_step_status: the lock is taken, plan and step are looked up; the
\* method returns False, releasing the lock, when either is missing
update_step_status_lookup(t) ==
    /\ thread[t].pc = "lock"
    /\ thread[t].c.op = "update_step_status"
    /\ access_lock = 0
    /\ IF update_step_status_ret(thread[t].c.campaign_id, thread[t].c.step_num)
       THEN /\ access_lock' = t
            /\ thread' = [thread EXCEPT ![t].pc = "assign",
                                        ![t].ref = campaign_plans[thread[t].c.campaign_id]]
       ELSE /\ access_lock' = 0
            /\ thread' = [thread EXCEPT ![t].pc = "done"]
    /\ UNCHANGED <<campaign_plans, heap, runs, now, ops, call, held, _instance,
                   _initialized, ctor, creating>>

\* update_step_status: step.status, the timestamp, step.result, plan.results
\* and step.error are assigned
update_step_status_assign(t) ==
    /\ thread[t].pc = "assign"
    /\ thread[t].c.op = "update_step_status"
    /\ LET plan == heap[thread[t].ref]
           c == thread[t].c
           i == get_step(plan, c.step_num)
       IN heap' = [heap EXCEPT ![thread[t].ref] =
                      [plan EXCEPT !.steps[i] = UpdatedStep(plan.steps[i], c.status,
                                                            c.result, c.error),
                                   !.results = UpdatedResults(plan, i, c.result)]]
    /\ thread' = [thread EXCEPT ![t].pc = "recompute"]
    /\ UNCHANGED <<campaign_plans, runs, now, ops, call, held, _instance,
                   _initialized, ctor, access_lock, creating>>

\* update_step_status: self._update_plan_status(plan) walks the steps and
\* decides the plan status ...
update_step_status_recompute(t) ==
    /\ thread[t].pc = "recompute"
    /\ thread' = [thread EXCEPT ![t].pc = "write",
                                ![t].derived = _update_plan_status(heap[thread[t].ref]).status]
    /\ UNCHANGED <<campaign_plans, heap, runs, now, ops, call, held, _instance,
                   _initialized, ctor, access_lock, creating>>

\* ... and assigns it to plan.status; return True; the lock is released
update_step_status_write(t) ==
    /\ thread[t].pc = "write"
    /\ heap' = [heap EXCEPT ![thread[t].ref].status = thread[t].derived]
    /\ access_lock' = 0
    /\ thread' = [thread EXCEPT ![t].pc = "done"]
    /\ UNCHANGED <<campaign_plans, runs, now, ops, call, held, _instance,
                   _initialized, ctor, creating>>

\* update_plan_status: the lock is taken and the plan looked up
update_plan_status_lookup(t) ==
    /\ thread[t].pc = "lock"
    /\ thread[t].c.op = "update_plan_status"
    /\ access_lock = 0
    /\ IF update_plan_status_ret(thread[t].c.campaign_id)
       THEN /\ access_lock' = t
            /\ thread' = [thread EXCEPT ![t].pc = "assign",
                                        ![t].ref = campaign_plans[thread[t].c.campaign_id]]
       ELSE /\ access_lock' = 0
            /\ thread' = [thread EXCEPT ![t].pc = "done"]
    /\ UNCHANGED <<campaign_plans, heap, runs, now, ops, call, held, _instance,
                   _initialized, ctor, creating>>

\* update_plan_status: plan.status and plan.error are assigned; return True;
\* the lock is released
update_plan_status_assign(t) ==
    /\ thread[t].pc = "assign"
    /\ thread[t].c.op = "update_plan_status"
    /\ heap' = update_plan_status(thread[t].c.campaign_id, thread[t].c.status,
                                  thread[t].c.error)
    /\ access_lock' = 0
    /\ thread' = [thread EXCEPT ![t].pc = "done"]
    /\ UNCHANGED <<campaign_plans, runs, now, ops, call, held, _instance,
                   _initialized, ctor, creating>>

\* a get_plan_status that builds its view without taking the lock
thread_get_plan_status_unlocked(t) ==
    /\ thread[t].pc = "lock"
    /\ thread[t].c.op = "get_plan_status"
    /\ call' = [op |-> "get_plan_status", campaign_id |-> thread[t].c.campaign_id,
                ret |-> get_plan_status(thread[t].c.campaign_id)]
    /\ thread' = [thread EXCEPT ![t].pc = "done"]
    /\ UNCHANGED <<campaign_plans, heap, runs, now, ops, held, _instance,
                   _initialized, ctor, access_lock, creating>>

\* get_plan_status: the whole method runs inside `with self.access_lock`
thread_get_plan_status(t) ==
    /\ thread[t].pc = "lock"
    /\ thread[t].c.op = "get_plan_status"
    /\ access_lock = 0
    /\ call' = [op |-> "get_plan_status", campaign_id |-> thread[t].c.campaign_id,
                ret |-> get_plan_status(thread[t].c.campaign_id)]
    /\ thread' = [thread EXCEPT ![t].pc = "done"]
    /\ UNCHANGED <<campaign_plans, heap, runs, now, ops, held, _instance,
                   _initialized, ctor, access_lock, creating>>

ThreadNext ==
    \/ \E t \in Threads, c \in ThreadCalls : invoke(t, c)
    \/ \E t \in Threads : create_plan_build(t)
    \/ \E t \in Threads : create_plan_store(t)
    \/ \E t \in Threads : update_step_status_lookup(t)
    \/ \E t \in Threads : update_step_status_assign(t)
    \/ \E t \in Threads : update_step_status_recompute(t)
    \/ \E t \in Threads : update_step_status_write(t)
    \/ \E t \in Threads : update_plan_status_lookup(t)
    \/ \E t \in Threads : update_plan_status_assign(t)
    \/ \E t \in Threads : thread_get_plan_status(t)

ThreadSpec == Init /\ [][ThreadNext]_vars

\* the same calls made one after the other: the registry as a map from
\* identifier to the plan stored under it
SeqApply(m, c) ==
    CASE c.op = "create_plan" ->
            [m EXCEPT ![c.campaign_id] = Some(NewPlan(c.campaign_id, c.goal))]
      [] c.op = "update_step_status" ->
            IF m[c.campaign_id] = None \/ get_step(m[c.campaign_id][1], c.step_num) = 0
            THEN m
            ELSE LET plan == m[c.campaign_id][1]
                     i == get_step(plan, c.step_num)
                 IN [m EXCEPT ![c.campaign_id] = Some(_update_plan_status(
                        [plan EXCEPT !.steps[i] = UpdatedStep(plan.steps[i], c.status,
                                                              c.result, c.error),
                                     !.results = UpdatedResults(plan, i, c.result)]))]
      [] c.op = "update_plan_status" ->
            IF m[c.campaign_id] = None THEN m
            ELSE LET p1 == [m[c.campaign_id][1] EXCEPT !.status = c.status]
                 IN [m EXCEPT ![c.campaign_id] =
                        Some(IF Truthy(c.error) THEN [p1 EXCEPT !.error = c.error] ELSE p1)]
      [] OTHER -> m

RECURSIVE SeqRun(_, _, _)
SeqRun(m, order, i) ==
    IF i > Len(order) THEN m
    ELSE SeqRun(SeqApply(m, thread[order[i]].c), order, i + 1)

\* the orders in which the threads' calls can be made one after the other
Orders == {o \in [1..MaxThreads -> Threads] : \A a, b \in 1..MaxThreads : o[a] = o[b] => a = b}

\* the registry's content: identifier -> the plan stored under it
RegistryView ==
    [id \in IdSpace |-> IF campaign_plans[id] = 0 THEN None
                        ELSE Some(heap[campaign_plans[id]])]

----------------------------------------------------------------------------
(* Vocabulary of the properties *)

\* the plan the registry holds under the identifier of run r
PlanOf(r) == heap[campaign_plans[runs[r].id]]

\* run r is the only run submitted for its identifier
Sole(r) == \A q \in DOMAIN runs : runs[q].id = runs[r].id => q = r

StatusesOf(plan) == {plan.steps[i].status : i \in 1..Len(plan.steps)}
AllCompleted(plan) == \A i \in 1..Len(plan.steps) : plan.steps[i].status = COMPLETED
Stored(id) == campaign_plans[id] # 0

----------------------------------------------------------------------------
\* C1: when the collaborator of step k raises with message m (the earlier ones
\* having succeeded), the finished run leaves steps 1..k-1 completed, step k
\* failed with error m, steps k+1..5 pending and never invoked, the plan failed
\* and the plan error equal to m.
C1_FailFast ==
    \A r \in DOMAIN runs : \A k \in 1..NumSteps :
        (runs[r].pc = "done" /\ Sole(r) /\ runs[r].outcome[k] = "raised") =>
            LET plan == PlanOf(r) IN
            /\ \A n \in 1..(k - 1) : plan.steps[n].status = COMPLETED
            /\ plan.steps[k].status = FAILED
            /\ plan.steps[k].error = runs[r].err
            /\ \A n \in (k + 1)..NumSteps :
                   plan.steps[n].status = PENDING /\ runs[r].outcome[n] = "not_called"
            /\ plan.status = FAILED
            /\ plan.error = runs[r].err

\* C2: a collaborator that returns a payload with success = False is treated
\* like one that raises: its step ends failed with an error recorded, no later
\* collaborator is invoked and the plan ends failed.
C2_FailureSignalAborts ==
    \A r \in DOMAIN runs : \A k \in 1..NumSteps :
        (runs[r].pc = "done" /\ Sole(r) /\ runs[r].outcome[k] = "nok") =>
            LET plan == PlanOf(r) IN
            /\ plan.steps[k].status = FAILED
            /\ plan.steps[k].error # None
            /\ \A n \in (k + 1)..NumSteps : runs[r].outcome[n] = "not_called"
            /\ plan.status = FAILED

\* C3 as stated: in every state of a plan driven by its background run the
\* status is completed iff all steps are completed, failed iff some step is
\* failed, executing iff some step is in_progress and none is failed.
C3_StatusIffSteps ==
    \A r \in DOMAIN runs : Sole(r) =>
        LET plan == PlanOf(r)
            st == StatusesOf(plan) IN
        /\ plan.status = COMPLETED <=> AllCompleted(plan)
        /\ plan.status = FAILED <=> FAILED \in st
        /\ plan.status = EXECUTING <=> (IN_PROGRESS \in st /\ FAILED \notin st)

\* C3 amended: completed iff all steps are completed, failed iff some step is
\* failed, executing iff some step is in_progress and none is failed or the run
\* has made its initial update_plan_status("executing") call and all steps are
\* still pending.
C3_StatusOfSteps ==
    \A r \in DOMAIN runs : Sole(r) =>
        LET plan == PlanOf(r)
            st == StatusesOf(plan) IN
        /\ plan.status = COMPLETED <=> AllCompleted(plan)
        /\ plan.status = FAILED <=> FAILED \in st
        /\ plan.status = EXECUTING <=>
               \/ IN_PROGRESS \in st /\ FAILED \notin st
               \/ st = {PENDING} /\ runs[r].pc # "queued"

\* a plan shown executing while none of its steps has started
C3_Witness ==
    \E r \in DOMAIN runs :
        /\ Sole(r)
        /\ PlanOf(r).status = EXECUTING
        /\ StatusesOf(PlanOf(r)) = {PENDING}

\* C4: when all five collaborators succeed, the run ends with the plan
\* completed, all 5 steps completed, no plan error and exactly the 5 agent
\* names as keys of results.
C4_AllSucceed ==
    \A r \in DOMAIN runs :
        (runs[r].pc = "done" /\ Sole(r) /\ \A k \in 1..NumSteps : runs[r].outcome[k] = "ok") =>
            LET plan == PlanOf(r) IN
            /\ plan.status = COMPLETED
            /\ AllCompleted(plan)
            /\ plan.error = None
            /\ DOMAIN plan.results = {AgentNames[n] : n \in 1..NumSteps}
            /\ Cardinality(DOMAIN plan.results) = NumSteps

C4_Witness ==
    \E r \in DOMAIN runs :
        /\ runs[r].pc = "done" /\ Sole(r)
        /\ \A k \in 1..NumSteps : runs[r].outcome[k] = "ok"
        /\ PlanOf(r).status = COMPLETED

\* C5: under fair scheduling every plan stored by create_campaign eventually
\* has status completed or failed.
C5_EventuallyTerminal ==
    \A id \in IdSpace :
        Stored(id) ~> (Stored(id) /\ heap[campaign_plans[id]].status \in {COMPLETED, FAILED})

C5_Witness ==
    \E r \in DOMAIN runs :
        runs[r].pc = "done" /\ PlanOf(r).status \in {COMPLETED, FAILED}

\* C6: no two create calls return the same identifier, and after N creations
\* the registry holds N distinct plans.
C6_UniqueIds ==
    /\ \A a, b \in DOMAIN heap : heap[a].campaign_id = heap[b].campaign_id => a = b
    /\ Cardinality({id \in IdSpace : Stored(id)}) = Len(heap)

\* C7: every get_plan_status view with status failed carries a non-null error.
C7_FailedHasError ==
    \A id \in IdSpace :
        (get_plan_status(id).success /\ get_plan_status(id).status = FAILED) =>
            get_plan_status(id).error # None

----------------------------------------------------------------------------
\* C8: every plan in the registry has exactly 5 steps, numbered 1..5 in order,
\* named GoalParser, DataLoader, SegmentationAgent, ProfileGeneratorAgent,
\* CampaignStrategistAgent, whatever registry operations have been applied.
C8_FixedTopology ==
    \A id \in IdSpace : Stored(id) =>
        LET plan == heap[campaign_plans[id]] IN
        /\ Len(plan.steps) = 5
        /\ [n \in 1..Len(plan.steps) |-> plan.steps[n].step] = <<1, 2, 3, 4, 5>>
        /\ [n \in 1..Len(plan.steps) |-> plan.steps[n].agent_name] =
               <<"GoalParser", "DataLoader", "SegmentationAgent",
                 "ProfileGeneratorAgent", "CampaignStrategistAgent">>

\* a stored plan that two update calls have been applied to
C8_Witness ==
    \E id \in IdSpace :
        /\ Stored(id)
        /\ ops = MaxOps
        /\ StatusesOf(heap[campaign_plans[id]]) # {PENDING}

\* C9: the step that stores a new plan leaves it with status pending, every
\* step pending with started_at, completed_at, result and error null, results
\* empty and the plan error null.
C9_FreshAfterCreate ==
    [][(call'.op = "create_plan" /\ Len(heap') = Len(heap) + 1) =>
          LET id == call'.ret
              plan == heap'[campaign_plans'[id]] IN
          /\ campaign_plans'[id] = Len(heap')
          /\ plan.campaign_id = id
          /\ plan.status = PENDING
          /\ \A n \in 1..Len(plan.steps) :
                 /\ plan.steps[n].status = PENDING
                 /\ plan.steps[n].started_at = None
                 /\ plan.steps[n].completed_at = None
                 /\ plan.steps[n].result = None
                 /\ plan.steps[n].error = None
          /\ DOMAIN plan.results = {}
          /\ plan.error = None]_vars

\* a plan has just been stored over an earlier one that had been updated
C9_Witness ==
    \E id \in IdSpace :
        /\ Stored(id)
        /\ campaign_plans[id] = Len(heap)
        /\ Len(heap) > 1
        /\ heap[1].campaign_id = id
        /\ StatusesOf(heap[1]) # {PENDING}
        /\ heap[campaign_plans[id]].status = PENDING

\* C10: update_step_status(p, n, s, result=R) on a stored plan and one of its
\* steps returns true, sets step n's status to s and, when R is not null, step
\* n's result and results[agent_name of n] to R; every other step and every
\* other results key is unchanged, and with R null results is unchanged.
C10_StepUpdateFrame ==
    [][(/\ ops' = ops + 1
        /\ call'.op = "update_step_status"
        /\ Stored(call'.campaign_id)
        /\ call'.step_num \in 1..NumSteps) =>
          LET old == heap[campaign_plans[call'.campaign_id]]
              new == heap'[campaign_plans[call'.campaign_id]]
              n == call'.step_num
              agent == old.steps[n].agent_name
              R == call'.result
          IN
          /\ call'.ret = TRUE
          /\ Len(new.steps) = Len(old.steps)
          /\ new.steps[n].status = call'.status
          /\ \A m \in 1..Len(old.steps) : m # n => new.steps[m] = old.steps[m]
          /\ IF R # None
             THEN /\ new.steps[n].result = R
                  /\ DOMAIN new.results = DOMAIN old.results \cup {agent}
                  /\ new.results[agent] = R[1]
                  /\ \A a \in DOMAIN old.results : a # agent => new.results[a] = old.results[a]
             ELSE /\ new.results = old.results
                  /\ new.steps[n].result = old.steps[n].result]_vars

\* two results stored under two keys of one plan
C10_Witness ==
    \E id \in IdSpace :
        /\ Stored(id)
        /\ Cardinality(DOMAIN heap[campaign_plans[id]].results) = 2
        /\ \E n \in 1..NumSteps : heap[campaign_plans[id]].steps[n].result # None

----------------------------------------------------------------------------
\* C11: update_step_status for an identifier the registry does not hold, or for
\* a step number outside 1..5 of a stored plan, returns false and changes
\* nothing; update_plan_status and get_plan_status for an unknown identifier
\* return false / not-found and change nothing.
C11_NotFoundChangesNothing ==
    [][/\ (/\ call'.op = "update_step_status"
            /\ ops' = ops + 1
            /\ (~Stored(call'.campaign_id) \/ call'.step_num \notin 1..NumSteps)) =>
               (call'.ret = FALSE /\ heap' = heap /\ campaign_plans' = campaign_plans)
       /\ (/\ call'.op = "update_plan_status"
            /\ ops' = ops + 1
            /\ ~Stored(call'.campaign_id)) =>
               (call'.ret = FALSE /\ heap' = heap /\ campaign_plans' = campaign_plans)
       /\ (/\ call'.op = "get_plan_status"
            /\ ~Stored(call'.campaign_id)) =>
               (call'.ret.success = FALSE /\ heap' = heap /\ campaign_plans' = campaign_plans)]_vars

\* an update addressed to step 6 of a stored, already updated plan was refused
C11_Witness ==
    /\ call.op = "update_step_status"
    /\ Stored(call.campaign_id)
    /\ call.step_num = NumSteps + 1
    /\ call.ret = FALSE
    /\ StatusesOf(heap[campaign_plans[call.campaign_id]]) # {PENDING}

\* C12: get_plan_status changes no registry state, and two calls for the same
\* identifier with no update or creation between them return the same content.
C12_PureRead ==
    [][/\ call'.op = "get_plan_status" =>
              (heap' = heap /\ campaign_plans' = campaign_plans /\ ops' = ops)
       /\ (/\ call.op = "get_plan_status"
            /\ call'.op = "get_plan_status"
            /\ call'.campaign_id = call.campaign_id) => call'.ret = call.ret]_vars

\* the view of a plan that has results, taken after the clock has moved, equal
\* to the view a further call returns
C12_Witness ==
    /\ call.op = "get_plan_status"
    /\ call.ret.success
    /\ DOMAIN call.ret.results # {}
    /\ now > heap[campaign_plans[call.campaign_id]].created_at
    /\ get_plan_status(call.campaign_id) = call.ret

\* C13: the content of a value returned by get_plan_status or get_plan (status,
\* steps, results, error) stays what it was when returned, whatever updates
\* are applied to the plan afterwards.
C13_Snapshots ==
    held.kind # "none" => Deref(held) = held.value

\* C14: get_result returns the final payload only for a plan whose status is
\* completed; for a pending, executing or failed plan it returns a not-ready
\* indicator that carries the plan's current status.
C14_ResultOnlyWhenCompleted ==
    \A id \in IdSpace :
        (Stored(id) /\ get_campaign_status(id).status # COMPLETED) =>
            LET res == get_campaign_result(id) IN
            /\ "campaign_strategy" \notin DOMAIN res
            /\ "status" \in DOMAIN res
            /\ res.status = get_campaign_status(id).status

\* C15: create_campaign does not wait for the pool: it can be called whatever
\* the workers are doing, and the step that performs it leaves the new plan
\* pending with every step pending, its run queued and every other run where
\* it was.
C15_CreateReturnsAtOnce ==
    [][/\ Len(heap) < PoolPlans => ENABLED PoolCreate
       /\ Len(runs') = Len(runs) + 1 =>
              LET r == Len(runs')
                  plan == heap'[campaign_plans'[runs'[r].id]] IN
              /\ runs'[r].pc = "queued"
              /\ plan.status = PENDING
              /\ StatusesOf(plan) = {PENDING}
              /\ \A q \in DOMAIN runs : runs'[q] = runs[q]]_vars

\* create_campaign has returned for a sixth plan while all five workers are
\* busy with other plans
C15_Witness ==
    /\ Len(runs) = PoolPlans
    /\ runs[PoolPlans].pc = "queued"
    /\ Cardinality(Running) = max_workers
    /\ PlanOf(PoolPlans).status = PENDING

\* C19: at most 5 runs are in progress and at most 5 plans have a step
\* in_progress at any time; a run that waits in the queue leaves its plan
\* pending with every step pending.
C19_PoolBound ==
    /\ Cardinality(Running) <= max_workers
    /\ Cardinality({id \in DOMAIN campaign_plans :
                       Stored(id) /\ IN_PROGRESS \in StatusesOf(heap[campaign_plans[id]])})
           <= max_workers
    /\ \A r \in DOMAIN runs : runs[r].pc = "queued" =>
           (PlanOf(r).status = PENDING /\ StatusesOf(PlanOf(r)) = {PENDING})

\* five plans have a step in_progress and a sixth waits
C19_Witness ==
    /\ Cardinality({id \in DOMAIN campaign_plans :
                       Stored(id) /\ IN_PROGRESS \in StatusesOf(heap[campaign_plans[id]])})
           = max_workers
    /\ \E r \in DOMAIN runs : runs[r].pc = "queued"

C17_EmptyGoalRejected ==
    /\ \A id \in IdSpace : Stored(id) => heap[campaign_plans[id]].goal # ""
    /\ Len(runs) = Cardinality({p \in DOMAIN heap : heap[p].goal # ""})

\* C18: once create_plan has returned identifier p, get_plan(p) returns a plan
\* with the same goal and created_at in every later state.
C18_NeverReplaced ==
    [][\A id \in IdSpace : Stored(id) =>
          /\ campaign_plans'[id] # 0
          /\ heap'[campaign_plans'[id]].goal = heap[campaign_plans[id]].goal
          /\ heap'[campaign_plans'[id]].created_at = heap[campaign_plans[id]].created_at]_vars

\* C20: within one run each collaborator is invoked at most once; when the
\* collaborator of step k raises, step k keeps a null result, results gets no
\* key for its agent_name, and no later collaborator is invoked.
C20_NoRetryNoSubstitution ==
    [][\A r \in DOMAIN runs' : \A k \in 1..NumSteps :
          /\ (r \in DOMAIN runs /\ runs'[r].outcome[k] # runs[r].outcome[k]) =>
                 runs[r].outcome[k] = "not_called"
          /\ (runs'[r].outcome[k] = "raised"
                 /\ \A q \in DOMAIN runs' : runs'[q].id = runs'[r].id => q = r) =>
                 LET plan == heap'[campaign_plans'[runs'[r].id]] IN
                 /\ plan.steps[k].result = None
                 /\ AgentNames[k] \notin DOMAIN plan.results
                 /\ \A n \in (k + 1)..NumSteps :
                        /\ runs'[r].outcome[n] = "not_called"
                        /\ plan.steps[n].status = PENDING
                        /\ plan.steps[n].result = None]_vars

\* a finished run whose third collaborator raised after two results were stored
C20_Witness ==
    \E r \in DOMAIN runs :
        /\ runs[r].pc = "done"
        /\ Sole(r)
        /\ runs[r].outcome[3] = "raised"
        /\ DOMAIN PlanOf(r).results = {AgentNames[1], AgentNames[2]}
        /\ PlanOf(r).steps[3].result = None

----------------------------------------------------------------------------
\* C21: within one plan run the steps execute in ascending order with no
\* overlap: at most one step of the plan is in_progress, and whenever step k is
\* not pending every step before k is completed.
C21_AscendingNoOverlap ==
    \A r \in DOMAIN runs : Sole(r) =>
        LET plan == PlanOf(r) IN
        /\ Cardinality({k \in 1..Len(plan.steps) : plan.steps[k].status = IN_PROGRESS}) <= 1
        /\ \A k \in 1..Len(plan.steps) :
               plan.steps[k].status # PENDING =>
                   \A n \in 1..(k - 1) : plan.steps[n].status = COMPLETED

\* the run is at its fourth step: three completed, one in_progress, one pending
C21_Witness ==
    \E r \in DOMAIN runs :
        /\ Sole(r)
        /\ runs[r].pc = "dispatch"
        /\ [k \in 1..NumSteps |-> PlanOf(r).steps[k].status] =
               <<COMPLETED, COMPLETED, COMPLETED, IN_PROGRESS, PENDING>>

\* C22: when the plans created through the service have distinct identifiers,
\* every change of a step's status made by the workers is pending to
\* in_progress, in_progress to completed or in_progress to failed; a completed
\* or failed step never changes status again.
C22_StepTransitions ==
    [][(\A a, b \in DOMAIN heap' : heap'[a].campaign_id = heap'[b].campaign_id => a = b) =>
          \A p \in DOMAIN heap : \A k \in 1..Len(heap[p].steps) :
              heap'[p].steps[k].status # heap[p].steps[k].status =>
                  <<heap[p].steps[k].status, heap'[p].steps[k].status>> \in
                      {<<PENDING, IN_PROGRESS>>, <<IN_PROGRESS, COMPLETED>>,
                       <<IN_PROGRESS, FAILED>>}]_vars

\* two plans with distinct identifiers, both run to the end: one with a failed
\* step, the other with all steps completed
C22_Witness ==
    /\ Len(heap) = 2
    /\ heap[1].campaign_id # heap[2].campaign_id
    /\ \A r \in DOMAIN runs : runs[r].pc = "done"
    /\ \E p, q \in DOMAIN heap :
           /\ FAILED \in StatusesOf(heap[p])
           /\ AllCompleted(heap[q])

----------------------------------------------------------------------------
\* C23: after every update_step_status call that returns true the plan status
\* is the value derived from the step statuses (executing if any step is
\* in_progress, else failed if any is failed, else completed if all are
\* completed, else pending), whatever the plan status was before the call.
C23_StatusRederived ==
    [][(/\ ops' = ops + 1
        /\ call'.op = "update_step_status"
        /\ call'.ret = TRUE) =>
          LET new == heap'[campaign_plans'[call'.campaign_id]]
              st == {new.steps[i].status : i \in 1..Len(new.steps)} IN
          new.status = IF IN_PROGRESS \in st THEN EXECUTING
                       ELSE IF FAILED \in st THEN FAILED
                       ELSE IF \A i \in 1..Len(new.steps) : new.steps[i].status = COMPLETED
                            THEN COMPLETED
                       ELSE PENDING]_vars

\* a step update has put back to pending a plan that an update_plan_status call
\* with an error text had forced before
C23_Witness ==
    /\ call.op = "update_step_status"
    /\ call.ret = TRUE
    /\ ops = MaxOps
    /\ heap[campaign_plans[call.campaign_id]].error # None
    /\ heap[campaign_plans[call.campaign_id]].status = PENDING

\* C24: over any sequence of update_step_status calls a step's started_at and
\* completed_at are each written once: a timestamp that is set is never
\* overwritten by a later call.
C24_TimestampsWrittenOnce ==
    [][\A p \in DOMAIN heap : \A k \in 1..Len(heap[p].steps) :
          /\ heap[p].steps[k].started_at # None =>
                 heap'[p].steps[k].started_at = heap[p].steps[k].started_at
          /\ heap[p].steps[k].completed_at # None =>
                 heap'[p].steps[k].completed_at = heap[p].steps[k].completed_at]_vars

\* C25: after any sequence of registry operations under a non-decreasing clock,
\* every step with both timestamps set has completed_at >= started_at.
C25_CompletedAfterStarted ==
    \A p \in DOMAIN heap : \A k \in 1..Len(heap[p].steps) :
        (heap[p].steps[k].started_at # None /\ heap[p].steps[k].completed_at # None) =>
            heap[p].steps[k].completed_at[1] >= heap[p].steps[k].started_at[1]

----------------------------------------------------------------------------
\* C26: every read and every mutation of the plan map and of a plan's status,
\* steps, results and error is made while holding the registry's access lock:
\* no run reads a plan's fields through a reference it kept after the lock was
\* released.
C26_AllAccessUnderLock ==
    \A r \in DOMAIN runs : runs[r].unlocked = {}

\* C27: registry operations are atomic with respect to each other: when several
\* threads have made their create_plan, update_step_status and
\* update_plan_status calls in any interleaving, the registry's content is what
\* some sequential order of the same calls leaves; and a get_plan_status call
\* never runs while another thread has assigned a step's fields and not yet
\* recomputed the plan status.
C27_Atomic ==
    /\ []((\A t \in Threads : thread[t].pc = "done") =>
              \E o \in Orders : RegistryView = SeqRun([id \in IdSpace |-> None], o, 1))
    /\ [][\A t \in Threads :
              (/\ thread[t].pc = "lock"
               /\ thread[t].c.op = "get_plan_status"
               /\ thread'[t].pc = "done") =>
                  /\ \A u \in Threads : thread[u].pc \notin {"assign", "recompute", "write"}
                  /\ call'.ret = get_plan_status(thread[t].c.campaign_id)]_vars

\* three threads are done: a plan was created and two concurrent updates of two
\* different steps of it were both applied
C27_Witness ==
    /\ \A t \in Threads : thread[t].pc = "done"
    /\ \E t, u, v \in Threads :
           /\ thread[t].c.op = "create_plan"
           /\ thread[u].c.op = "update_step_status" /\ thread[u].c.step_num = 1
           /\ thread[v].c.op = "update_step_status" /\ thread[v].c.step_num = 2
           /\ thread[u].c.campaign_id = thread[t].c.campaign_id
           /\ thread[v].c.campaign_id = thread[t].c.campaign_id
           /\ Stored(thread[t].c.campaign_id)
           /\ heap[campaign_plans[thread[t].c.campaign_id]].steps[1].status # PENDING
           /\ heap[campaign_plans[thread[t].c.campaign_id]].steps[2].status # PENDING

\* C28: every access to the registry singleton, concurrent first accesses
\* included, yields the one instance, and the instance's plan map and access
\* lock are initialised once: no CampaignPlanner() call fails, and at most one
\* caller runs the initialising part of __init__.
C28_SingleInitialisation ==
    /\ \A t \in Callers : ctor[t] # "raised"
    /\ Cardinality({t \in Callers : ctor[t] \in {"init_plans", "init_flag"}}) <= 1

\* C29: every plan created through create_campaign has its run scheduled
\* exactly once, and at no time are two workers executing steps of the same
\* plan identifier.
C29_OneWorkerPerPlan ==
    /\ Len(runs) = Len(heap)
    /\ \A r, q \in Running : runs[r].id = runs[q].id => r = q

\* C30: an exception raised by a collaborator never leaves the executor's run:
\* the run returns to the service, which skips persistence, and the failure is
\* in the registry as status failed with the exception's text as the error of
\* the step and of the plan.
C30_FailureContained ==
    \A r \in DOMAIN runs : \A k \in 1..NumSteps :
        (runs[r].pc = "done" /\ Sole(r) /\ runs[r].outcome[k] = "raised") =>
            /\ runs[r].persisted = "no"
            /\ PlanOf(r).status = FAILED
            /\ PlanOf(r).steps[k].status = FAILED
            /\ PlanOf(r).error # None /\ PlanOf(r).error = runs[r].err
            /\ PlanOf(r).steps[k].error # None

----------------------------------------------------------------------------
\* C31: when an update_step_status call made by the executor during a run
\* returns false (plan or step not found), the executor aborts the run: it
\* does not go on to invoke the step's collaborator.
C31_FalseUpdateAborts ==
    [][\A r \in DOMAIN runs :
          (/\ runs[r].pc = "loop"
           /\ runs'[r].pc # "loop"
           /\ ~update_step_status_ret(runs[r].id, CurStep(r).step)) =>
              runs'[r].pc \in {"plan_failed", "done"}]_vars

\* C32: the collaborator of step k is called with the results of the stages it
\* requires (SegmentationAgent: GoalParser, DataLoader; ProfileGeneratorAgent:
\* SegmentationAgent, DataLoader, GoalParser; CampaignStrategistAgent:
\* ProfileGeneratorAgent, GoalParser), each present in the plan's results and
\* equal to the value the earlier completed step stored, and with no other
\* stage's result.
C32_DeclaredInputsOnly ==
    \A r \in DOMAIN runs : \A k \in 1..NumSteps :
        (Sole(r) /\ runs[r].sent[k] # None) =>
            LET plan == PlanOf(r)
                msg == runs[r].sent[k][1]
                needs == CASE k = 3 -> {<<"criteria", 1>>, <<"agent_data", 2>>}
                           [] k = 4 -> {<<"segmentation", 3>>, <<"agent_data", 2>>,
                                        <<"criteria", 1>>}
                           [] k = 5 -> {<<"profiles", 4>>, <<"criteria", 1>>}
                           [] OTHER -> {}
            IN /\ DOMAIN msg \ {"goal"} = {fn[1] : fn \in needs}
               /\ \A fn \in needs :
                      /\ plan.steps[fn[2]].status = COMPLETED
                      /\ plan.steps[fn[2]].result # None
                      /\ AgentNames[fn[2]] \in DOMAIN plan.results
                      /\ plan.results[AgentNames[fn[2]]] = plan.steps[fn[2]].result[1]
                      /\ plan.steps[fn[2]].result[1].key = fn[1]
                      /\ msg[fn[1]] = plan.steps[fn[2]].result[1].payload

\* the fifth collaborator has been called, after a failure-signalling payload
\* was stored by an earlier step
C32_Witness ==
    \E r \in DOMAIN runs :
        /\ Sole(r)
        /\ runs[r].sent[5] # None
        /\ runs[r].sent[5][1].profiles \in {"ok", "nok"}
        /\ \E n \in 1..4 : runs[r].outcome[n] = "nok"

\* C33: in every state of a plan driven by its run, a step's result is non-null
\* only if the step is completed, results has a key for an agent_name exactly
\* when that stage's step is completed, and the value under the key is the
\* step's result; no step of the run removes a key from results.
C33_ResultsMatchCompletedSteps ==
    /\ [](\A r \in DOMAIN runs : Sole(r) =>
              LET plan == PlanOf(r) IN
              \A k \in 1..Len(plan.steps) :
                  /\ plan.steps[k].result # None => plan.steps[k].status = COMPLETED
                  /\ plan.steps[k].agent_name \in DOMAIN plan.results
                         <=> plan.steps[k].status = COMPLETED
                  /\ plan.steps[k].status = COMPLETED =>
                         /\ plan.steps[k].result # None
                         /\ plan.results[plan.steps[k].agent_name] = plan.steps[k].result[1])
    /\ [][\A p \in DOMAIN heap :
              DOMAIN heap[p].results \subseteq DOMAIN heap'[p].results]_vars

\* the run is at its third collaborator: two results stored, the third step
\* in_progress without a result
C33_Witness ==
    \E r \in DOMAIN runs :
        /\ Sole(r)
        /\ runs[r].pc = "dispatch"
        /\ runs[r].j = 3
        /\ DOMAIN PlanOf(r).results = {AgentNames[1], AgentNames[2]}
        /\ PlanOf(r).steps[3].status = IN_PROGRESS
        /\ PlanOf(r).steps[3].result = None

\* C34: a run whose collaborator call has not returned keeps its worker: as
\* long as the call is outstanding the plan stays executing with that step
\* in_progress and nothing changes the plan; while all 5 workers are held this
\* way no queued run can start, and every queued run's plan stays pending with
\* all steps pending.
C34_NoTimeout ==
    [][/\ \A r \in DOMAIN runs :
              (runs[r].pc = "dispatch" /\ runs'[r].pc = "dispatch") =>
                  /\ runs'[r] = runs[r]
                  /\ heap'[runs[r].plan] = heap[runs[r].plan]
                  /\ campaign_plans'[runs[r].id] = runs[r].plan
                  /\ heap[runs[r].plan].status = EXECUTING
                  /\ CurStep(r).status = IN_PROGRESS
       /\ Cardinality({r \in DOMAIN runs : runs[r].pc = "dispatch"}) = max_workers =>
              /\ \A q \in DOMAIN runs :
                     runs[q].pc = "queued" =>
                         /\ ~ENABLED _execute_campaign_async(q)
                         /\ PlanOf(q).status = PENDING
                         /\ StatusesOf(PlanOf(q)) = {PENDING}
              /\ \A q \in DOMAIN runs' :
                     (q \notin DOMAIN runs \/ runs[q].pc = "queued") =>
                         \/ Cardinality({r \in DOMAIN runs' : runs'[r].pc = "dispatch"})
                                < max_workers
                         \/ /\ runs'[q].pc = "queued"
                            /\ heap'[campaign_plans'[runs'[q].id]].status = PENDING]_vars

\* all five workers are inside a collaborator call and a sixth plan waits
C34_Witness ==
    /\ Cardinality({r \in DOMAIN runs : runs[r].pc = "dispatch"}) = max_workers
    /\ Len(runs) = PoolPlans
    /\ runs[PoolPlans].pc = "queued"
    /\ StatusesOf(PlanOf(PoolPlans)) = {PENDING}

\* C35: during a run the plan status never goes from executing back to
\* pending: once executing, it stays executing until it becomes completed or
\* failed, also between the completion of step k and the start of step k+1.
C35_NoReturnToPending ==
    [][\A r \in DOMAIN runs :
          (Sole(r) /\ Sole(r)' /\ get_plan_status(runs[r].id).status = EXECUTING) =>
              get_plan_status(runs[r].id)'.status \in {EXECUTING, COMPLETED, FAILED}]_vars

\* C36: the response of create_campaign shows a freshly created plan: status
\* pending and every step of its plan list pending with null started_at and
\* completed_at, also when a worker has started the run before the response
\* is built.
C36_ResponseIsFresh ==
    call.op = "create_campaign" =>
        /\ call.ret.status = PENDING
        /\ \A i \in 1..Len(call.ret.plan) :
               /\ call.ret.plan[i].status = PENDING
               /\ call.ret.plan[i].started_at = None
               /\ call.ret.plan[i].completed_at = None

\* C37: plans are isolated from each other: a step of the run of plan p, with
\* its update_step_status(p, ...) and update_plan_status(p, ...) calls, changes
\* only the plan registered under p; the status, steps, results and error of
\* every other plan stay as they were, also when runs of several plans
\* interleave; such a step registers no plan anew, and no plan changes without
\* a run taking a step.
C37_PlansIsolated ==
    [][/\ \A r \in DOMAIN runs :
            runs'[r] # runs[r] =>
                /\ campaign_plans' = campaign_plans
                /\ \A h \in DOMAIN heap :
                      h # campaign_plans[runs[r].id] => heap'[h] = heap[h]
       /\ \A h \in DOMAIN heap :
            heap'[h] # heap[h] => \E r \in DOMAIN runs : runs'[r] # runs[r]]_vars

\* two plans under different identifiers whose runs overlap: one has finished
\* steps while the other is in the middle of its first step
C37_Witness ==
    /\ Stored(1) /\ Stored(2)
    /\ campaign_plans[1] # campaign_plans[2]
    /\ heap[campaign_plans[1]].steps[2].status = COMPLETED
    /\ heap[campaign_plans[1]].steps[3].status = IN_PROGRESS
    /\ heap[campaign_plans[2]].status = EXECUTING
    /\ heap[campaign_plans[2]].steps[1].status = IN_PROGRESS
    /\ heap[campaign_plans[2]].results = EmptyDict

====
